---- MODULE Spec2Model ----
(***************************************************************************)
(* Model of streamz/sinks.py: the Sink base class with the process-wide    *)
(* registry _global_sinks, and the four sink variants sink,                *)
(* sink_to_textfile, to_websocket and to_mqtt.                             *)
(*                                                                         *)
(* One sink instance (Self) is followed through construction, deliveries   *)
(* (update) and destroy.  Its variant is chosen in Init.  Synchronous      *)
(* methods run on the caller's thread, one statement per step (pc);        *)
(* to_websocket.update is a coroutine on the event loop and its            *)
(* suspension points are steps of their own.                               *)
(***************************************************************************)
EXTENDS Integers, Sequences, FiniteSets, TLC

VARIABLES
    kind,           \* the class of the instance
    pc,             \* position of the caller's thread inside __init__ / destroy
    last,           \* <<method, outcome>> of the latest finished synchronous call:
                    \* "returned" or the exception it raised
    alive,          \* the object exists (constructed and not collected)
    userRef,        \* the caller still holds a reference to the sink
    attached,       \* the sink is in its upstream's downstreams
    _global_sinks,  \* sinks.py:10
    ctor,           \* the arguments given to the constructor
    delivered,      \* the values passed to update so far, in call order
    nDestroy,       \* number of destroy() calls started
    released,       \* a destroy() that released an opened resource has returned
    args,           \* sink.args
    kwargs,         \* sink.kwargs (names of the keywords bound to func)
    calls,          \* invocations of sink.func, in order
    returned,       \* for each sink.update call that returned: what func gave
                    \* and what update returned
    _end,           \* sink_to_textfile._end
    _fp,            \* sink_to_textfile._fp: "none", "open" or "closed"
    written,        \* the data written through _fp
    ws,             \* to_websocket.ws: None or the number of a connection
    conns,          \* state of every connection websockets.connect was asked for
    co,             \* the to_websocket.update coroutines
    ready,          \* coroutines woken by a resolved connect, in wake-up order
    running,        \* the coroutine the loop is running between two awaits, or 0
    sends,          \* the ws.send invocations, in issue order
    closing,        \* the connection whose close destroy() is waiting for
    client,         \* to_mqtt.client: None or the number of a client
    clients         \* every mqtt.Client created: connected, disconnects, published

vars == <<kind, pc, last, alive, userRef, attached, _global_sinks, ctor,
          delivered, nDestroy, released, args, kwargs, calls, returned, _end, _fp,
          written, ws, conns, co, ready, running, sends, closing, client,
          clients>>

baseVars == <<kind, ctor, released>>
funcVars == <<args, kwargs, calls, returned>>
fileVars == <<_end, _fp, written>>
wsVars   == <<ws, conns, co, ready, running, sends, closing>>
mqttVars == <<client, clients>>

----------------------------------------------------------------------------
(* Bounds *)

MaxUpdates  == 2    \* update calls per sink
MaxDestroys == 2    \* destroy calls per sink

----------------------------------------------------------------------------
(* Values *)

Self == "self"
None == 0

Kinds == {"sink", "sink_to_textfile", "to_websocket", "to_mqtt"}

Values == {"a", "bc"}

\* parameters of Stream.__init__, as inspect.signature(Stream) lists them
StreamSig == {"upstream", "upstreams", "stream_name", "loop",
              "asynchronous", "ensure_io_loop"}

\* constructor inputs
ArgChoices == {<<>>, <<"p">>}
KwChoices  == {{}, {"sep"}, {"stream_name", "sep"}}
EndChoices == {"\n", ""}

\* what the wrapped function may do
FuncResults == {"awaitable", "value", "none"}
EmptyResult == "[]"

isawaitable(result) == result = "awaitable"

----------------------------------------------------------------------------

Init ==
    /\ kind \in Kinds
    /\ pc = "new"
    /\ last = <<"none", "none">>
    /\ alive = FALSE
    /\ userRef = FALSE
    /\ attached = FALSE
    /\ _global_sinks = {}
    /\ ctor = [args |-> <<>>, kwargs |-> {}, end |-> ""]
    /\ delivered = <<>>
    /\ nDestroy = 0
    /\ released = FALSE
    /\ args = <<>>
    /\ kwargs = {}
    /\ calls = <<>>
    /\ returned = <<>>
    /\ _end = ""
    /\ _fp = "none"
    /\ written = ""
    /\ ws = None
    /\ conns = <<>>
    /\ co = <<>>
    /\ ready = <<>>
    /\ running = 0
    /\ sends = <<>>
    /\ closing = None
    /\ client = None
    /\ clients = <<>>

----------------------------------------------------------------------------
(* Construction *)

\* sink.__init__, lines 60-65
SinkInit ==
    /\ kind = "sink" /\ pc = "new"
    /\ \E a \in ArgChoices, kw \in KwChoices :
        /\ ctor' = [ctor EXCEPT !.args = a, !.kwargs = kw]
        /\ kwargs' = {k \in kw : k \notin StreamSig}
        /\ args' = a
    /\ alive' = TRUE /\ userRef' = TRUE
    /\ pc' = "init_stream"
    /\ UNCHANGED <<kind, released, last, attached, _global_sinks, delivered,
                   nDestroy, calls, returned, fileVars, wsVars, mqttVars>>

\* sink_to_textfile.__init__, lines 106-108; open() of a path may fail
TextFileInit ==
    /\ kind = "sink_to_textfile" /\ pc = "new"
    /\ \E e \in EndChoices, ok \in BOOLEAN :
        /\ ctor' = [ctor EXCEPT !.end = e]
        /\ _end' = e
        /\ IF ok
           THEN /\ _fp' = "open"
                /\ alive' = TRUE /\ userRef' = TRUE
                /\ pc' = "init_stream"
                /\ last' = last
           ELSE /\ _fp' = "none"
                /\ alive' = FALSE /\ userRef' = FALSE
                /\ pc' = "init_raised"
                /\ last' = <<"__init__", "OSError">>
    /\ UNCHANGED <<kind, released, attached, _global_sinks, delivered,
                   nDestroy, funcVars, written, wsVars, mqttVars>>

\* to_websocket.__init__, lines 134-136
WebsocketInit ==
    /\ kind = "to_websocket" /\ pc = "new"
    /\ ws' = None
    /\ alive' = TRUE /\ userRef' = TRUE
    /\ pc' = "init_stream"
    /\ UNCHANGED <<baseVars, last, attached, _global_sinks, delivered,
                   nDestroy, funcVars, fileVars, conns, co, ready, running,
                   sends, closing, mqttVars>>

\* a constructor that creates the client at once
MqttInitEager ==
    /\ kind = "to_mqtt" /\ pc = "new"
    /\ client' = 1
    /\ clients' = <<[connected |-> FALSE, disconnects |-> 0, published |-> <<>>,
                     afterRelease |-> FALSE]>>
    /\ alive' = TRUE /\ userRef' = TRUE
    /\ pc' = "init_stream"
    /\ UNCHANGED <<baseVars, last, attached, _global_sinks, delivered,
                   nDestroy, funcVars, fileVars, wsVars>>

\* to_mqtt.__init__, lines 171-176
MqttInit ==
    /\ kind = "to_mqtt" /\ pc = "new"
    /\ client' = None
    /\ alive' = TRUE /\ userRef' = TRUE
    /\ pc' = "init_stream"
    /\ UNCHANGED <<baseVars, last, attached, _global_sinks, delivered,
                   nDestroy, funcVars, fileVars, wsVars, clients>>

\* Sink.__init__, line 18: Stream.__init__ connects the sink to its upstream
StreamInit ==
    /\ pc = "init_stream"
    /\ attached' = TRUE
    /\ pc' = "init_add"
    /\ UNCHANGED <<baseVars, last, alive, userRef, _global_sinks, delivered,
                   nDestroy, funcVars, fileVars, wsVars, mqttVars>>

\* Sink.__init__, line 19
RegistryAdd ==
    /\ pc = "init_add"
    /\ _global_sinks' = _global_sinks \cup {Self}
    /\ pc' = "idle"
    /\ last' = <<"__init__", "returned">>
    /\ UNCHANGED <<baseVars, alive, userRef, attached, delivered, nDestroy,
                   funcVars, fileVars, wsVars, mqttVars>>

----------------------------------------------------------------------------
(* Reachability of the object *)

initDone == pc \notin {"new", "init_stream", "init_add", "init_raised"}

constructed == alive /\ initDone

\* a caller can deliver to the sink through the graph or through its reference
canCall == constructed /\ (attached \/ userRef \/ Self \in _global_sinks)

\* the coroutines that have not finished keep a reference to the sink
pending == {i \in 1..Len(co) : co[i].pc \notin {"done", "failed"}}

\* the caller drops its reference
DropRef ==
    /\ constructed /\ pc = "idle" /\ userRef
    /\ userRef' = FALSE
    /\ UNCHANGED <<baseVars, pc, last, alive, attached, _global_sinks,
                   delivered, nDestroy, funcVars, fileVars, wsVars, mqttVars>>

\* the object is collected once nothing refers to it; the finalizer
\* registered at line 108 then closes the file
Collect ==
    /\ constructed /\ pc = "idle"
    /\ ~userRef /\ Self \notin _global_sinks /\ pending = {}
    /\ alive' = FALSE
    /\ attached' = FALSE
    /\ _fp' = IF _fp = "open" THEN "closed" ELSE _fp
    /\ UNCHANGED <<baseVars, pc, last, userRef, _global_sinks, delivered,
                   nDestroy, funcVars, _end, written, wsVars, mqttVars>>

\* an interpreter exit that runs no finalizer
InterpreterExitNoFinalizer ==
    /\ constructed /\ pc = "idle"
    /\ alive' = FALSE
    /\ UNCHANGED <<baseVars, pc, last, userRef, attached, _global_sinks,
                   delivered, nDestroy, funcVars, fileVars, wsVars, mqttVars>>

\* the interpreter exits: a finalizer registered with weakref.finalize
\* (line 108, atexit left at its default) that is still alive is run
InterpreterExit ==
    /\ constructed /\ pc = "idle"
    /\ alive' = FALSE
    /\ _fp' = IF _fp = "open" THEN "closed" ELSE _fp
    /\ UNCHANGED <<baseVars, pc, last, userRef, attached, _global_sinks,
                   delivered, nDestroy, funcVars, _end, written, wsVars,
                   mqttVars>>

----------------------------------------------------------------------------
(* sink.update and sink_to_textfile.update *)

\* a call that drops the fixed positional arguments
FuncCallNoArgs(x) == [x |-> x, args |-> <<>>, kwargs |-> kwargs]

\* the positional and keyword arguments of one call of func, line 69
FuncCall(x) == [x |-> x, args |-> args, kwargs |-> kwargs]

\* an update that hands back whatever func returned
UpdateResultAsIs(result) == result

\* lines 70-73
UpdateResult(result) == IF isawaitable(result) THEN result ELSE EmptyResult

\* sink.update, lines 68-73
SinkUpdate ==
    /\ kind = "sink" /\ canCall /\ pc = "idle"
    /\ Len(delivered) < MaxUpdates
    /\ \E x \in Values :
        /\ delivered' = Append(delivered, x)
        /\ calls' = Append(calls, FuncCall(x))
        /\ \/ \E result \in FuncResults :
                /\ returned' = Append(returned,
                       [func |-> result, update |-> UpdateResult(result)])
                /\ last' = <<"update", "returned">>
           \/ /\ returned' = returned
              /\ last' = <<"update", "FuncError">>
    /\ UNCHANGED <<baseVars, pc, alive, userRef, attached, _global_sinks,
                   nDestroy, args, kwargs, fileVars, wsVars, mqttVars>>

\* a write that forgets the terminator
LineNoEnd(x) == x

\* the argument of _fp.write, line 112
Line(x) == x \o _end

\* sink_to_textfile.update, lines 111-112
TextFileUpdate ==
    /\ kind = "sink_to_textfile" /\ canCall /\ pc = "idle"
    /\ _fp = "open"
    /\ Len(delivered) < MaxUpdates
    /\ \E x \in Values :
        /\ delivered' = Append(delivered, x)
        /\ written' = written \o Line(x)
        /\ last' = <<"update", "returned">>
    /\ UNCHANGED <<baseVars, pc, alive, userRef, attached, _global_sinks,
                   nDestroy, funcVars, _end, _fp, wsVars, mqttVars>>

----------------------------------------------------------------------------
(* to_mqtt.update *)

\* mqtt.Client(), line 182; afterRelease records that a destroy() had already
\* disconnected an earlier client
NewClient ==
    [connected |-> FALSE, disconnects |-> 0, published |-> <<>>,
     afterRelease |-> released]

\* Client.publish, line 185: the payload is handed to the client
Publish(cs, c, x) ==
    [cs EXCEPT ![c].published = Append(@, [x |-> x, connected |-> cs[c].connected])]

\* to_mqtt.update, lines 179-185; Client.connect may raise
MqttUpdate ==
    /\ kind = "to_mqtt" /\ canCall /\ pc = "idle"
    /\ Len(delivered) < MaxUpdates
    /\ \E x \in Values, connectOk \in BOOLEAN :
        /\ delivered' = Append(delivered, x)
        /\ IF client = None
           THEN LET c  == Len(clients) + 1
                    cs == Append(clients, [NewClient EXCEPT !.connected = connectOk])
                IN  /\ client' = c
                    /\ IF connectOk
                       THEN /\ clients' = Publish(cs, c, x)
                            /\ last' = <<"update", "returned">>
                       ELSE /\ clients' = cs
                            /\ last' = <<"update", "ConnectError">>
           ELSE /\ connectOk
                /\ client' = client
                /\ clients' = Publish(clients, client, x)
                /\ last' = <<"update", "returned">>
    /\ UNCHANGED <<baseVars, pc, alive, userRef, attached, _global_sinks,
                   nDestroy, funcVars, fileVars, wsVars>>

----------------------------------------------------------------------------
(* to_websocket.update: one coroutine per call *)

\* a coroutine: its argument, its position, the connection it asked for (own)
\* and the one it sends on (conn); saw, released and afterFailure record the
\* connections, the destroy state and the failed deliveries it was called
\* after
NewCo(x, at, c) ==
    [x |-> x, pc |-> at, own |-> c, conn |-> c, saw |-> conns,
     released |-> released,
     afterFailure |-> \E i \in 1..Len(co) : co[i].pc = "failed"]

\* the messages the upstream may emit next: consecutive messages differ, so
\* that the order of two sends shows in what is sent
Messages ==
    {x \in Values : delivered = <<>> \/ x # delivered[Len(delivered)]}

\* lines 139-142: the call runs up to its first await
WebsocketUpdate ==
    /\ kind = "to_websocket" /\ canCall /\ running = 0
    /\ Len(co) < MaxUpdates
    /\ \E x \in Messages :
        /\ delivered' = Append(delivered, x)
        /\ IF ws = None
           THEN /\ conns' = Append(conns, "connecting")
                /\ co' = Append(co, NewCo(x, "connect", Len(conns) + 1))
                /\ running' = 0
           ELSE /\ conns' = conns
                /\ co' = Append(co, NewCo(x, "send", None))
                /\ running' = Len(co) + 1
    /\ UNCHANGED <<baseVars, pc, last, alive, userRef, attached,
                   _global_sinks, nDestroy, funcVars, fileVars, ws, ready,
                   sends, closing, mqttVars>>

\* websockets.connect resolves: the connection is open and the awaiting
\* coroutine is scheduled, or the connect fails and the coroutine with it
ConnectResolve ==
    /\ \E i \in 1..Len(co) :
        /\ co[i].pc = "connect"
        /\ \/ /\ conns' = [conns EXCEPT ![co[i].conn] = "open"]
              /\ co' = [co EXCEPT ![i].pc = "woken"]
              /\ ready' = Append(ready, i)
           \/ /\ conns' = [conns EXCEPT ![co[i].conn] = "failed"]
              /\ co' = [co EXCEPT ![i].pc = "failed"]
              /\ ready' = ready
    /\ UNCHANGED <<baseVars, pc, last, alive, userRef, attached,
                   _global_sinks, delivered, nDestroy, funcVars, fileVars,
                   ws, running, sends, closing, mqttVars>>

\* line 142: the woken coroutine is resumed and assigns self.ws
ConnectResume ==
    /\ running = 0 /\ ready # <<>>
    /\ LET i == Head(ready) IN
        /\ ws' = co[i].conn
        /\ co' = [co EXCEPT ![i].pc = "send"]
        /\ running' = i
    /\ ready' = Tail(ready)
    /\ UNCHANGED <<baseVars, pc, last, alive, userRef, attached,
                   _global_sinks, delivered, nDestroy, funcVars, fileVars,
                   conns, sends, closing, mqttVars>>

\* line 143: self.ws is read again and send is called on it
SendIssue ==
    /\ running # 0 /\ co[running].pc = "send"
    /\ IF ws = None
       THEN /\ co' = [co EXCEPT ![running].pc = "failed"]
            /\ sends' = sends
       ELSE /\ co' = [co EXCEPT ![running].pc = "sending", ![running].conn = ws]
            /\ sends' = Append(sends, [conn |-> ws, x |-> co[running].x, by |-> running])
    /\ running' = 0
    /\ UNCHANGED <<baseVars, pc, last, alive, userRef, attached,
                   _global_sinks, delivered, nDestroy, funcVars, fileVars,
                   ws, conns, ready, closing, mqttVars>>

\* a send that drops the sink from the registry when it fails
SendDoneUnregister ==
    /\ running = 0
    /\ \E i \in 1..Len(co) :
        /\ co[i].pc = "sending"
        /\ co' = [co EXCEPT ![i].pc =
                     IF conns[co[i].conn] = "open" THEN "done" ELSE "failed"]
        /\ _global_sinks' =
               IF conns[co[i].conn] = "open" THEN _global_sinks ELSE {}
    /\ UNCHANGED <<baseVars, pc, last, alive, userRef, attached,
                   delivered, nDestroy, funcVars, fileVars,
                   ws, conns, ready, running, sends, closing, mqttVars>>

\* line 143: the awaited send completes, or fails on a closed connection
SendDone ==
    /\ running = 0
    /\ \E i \in 1..Len(co) :
        /\ co[i].pc = "sending"
        /\ co' = [co EXCEPT ![i].pc =
                     IF conns[co[i].conn] = "open" THEN "done" ELSE "failed"]
    /\ UNCHANGED <<baseVars, pc, last, alive, userRef, attached,
                   _global_sinks, delivered, nDestroy, funcVars, fileVars,
                   ws, conns, ready, running, sends, closing, mqttVars>>

\* the peer closes an open connection
PeerClose ==
    /\ \E c \in 1..Len(conns) :
        /\ conns[c] = "open"
        /\ conns' = [conns EXCEPT ![c] = "closed"]
    /\ UNCHANGED <<baseVars, pc, last, alive, userRef, attached,
                   _global_sinks, delivered, nDestroy, funcVars, fileVars,
                   ws, co, ready, running, sends, closing, mqttVars>>

----------------------------------------------------------------------------
(* destroy *)

\* destroy() is entered: to_mqtt.destroy starts at line 188, the others
\* at Sink.destroy, line 22
DestroyCall ==
    /\ canCall /\ pc = "idle"
    /\ nDestroy < MaxDestroys
    /\ nDestroy' = nDestroy + 1
    /\ pc' = IF kind = "to_mqtt" THEN "d_disconnect" ELSE "d_stream"
    /\ UNCHANGED <<baseVars, last, alive, userRef, attached, _global_sinks,
                   delivered, funcVars, fileVars, wsVars, mqttVars>>

\* to_mqtt.destroy, line 188: AttributeError on None, or disconnect, which
\* may itself raise
MqttDisconnect ==
    /\ pc = "d_disconnect"
    /\ IF client = None
       THEN /\ clients' = clients
            /\ pc' = "idle"
            /\ last' = <<"destroy", "AttributeError">>
       ELSE \E ok \in BOOLEAN :
            /\ clients' = [clients EXCEPT ![client].disconnects = @ + 1,
                                          ![client].connected = (@ /\ ~ok)]
            /\ pc' = IF ok THEN "d_client" ELSE "idle"
            /\ last' = IF ok THEN last ELSE <<"destroy", "CloseError">>
    /\ UNCHANGED <<baseVars, alive, userRef, attached, _global_sinks,
                   delivered, nDestroy, funcVars, fileVars, wsVars, client>>

\* a destroy that keeps the client reference
MqttClearKeep ==
    /\ pc = "d_client"
    /\ pc' = "d_stream"
    /\ UNCHANGED <<baseVars, last, alive, userRef, attached, _global_sinks,
                   delivered, nDestroy, funcVars, fileVars, wsVars, mqttVars>>

\* to_mqtt.destroy, line 189
MqttClear ==
    /\ pc = "d_client"
    /\ client' = None
    /\ pc' = "d_stream"
    /\ UNCHANGED <<baseVars, last, alive, userRef, attached, _global_sinks,
                   delivered, nDestroy, funcVars, fileVars, wsVars, clients>>

\* Sink.destroy, line 22: Stream.destroy detaches the sink from its upstreams
StreamDestroy ==
    /\ pc = "d_stream"
    /\ attached' = FALSE
    /\ pc' = "d_remove"
    /\ UNCHANGED <<baseVars, last, alive, userRef, _global_sinks, delivered,
                   nDestroy, funcVars, fileVars, wsVars, mqttVars>>

\* a destroy that forgets to unregister
RemoveNothing(registry) == registry

\* _global_sinks.remove(self), line 23
Remove(registry) == registry \ {Self}

\* Sink.destroy, line 23: set.remove raises KeyError on a missing element
RegistryRemove ==
    /\ pc = "d_remove"
    /\ IF Self \in _global_sinks
       THEN /\ _global_sinks' = Remove(_global_sinks)
            /\ IF kind = "to_websocket"
               THEN /\ pc' = "d_check"
                    /\ UNCHANGED <<last, released>>
               ELSE /\ pc' = "idle"
                    /\ last' = <<"destroy", "returned">>
                    /\ released' = (released \/ kind = "to_mqtt")
       ELSE /\ _global_sinks' = _global_sinks
            /\ pc' = "idle"
            /\ last' = <<"destroy", "KeyError">>
            /\ released' = released
    /\ UNCHANGED <<kind, ctor, alive, userRef, attached, delivered, nDestroy,
                   funcVars, fileVars, wsVars, mqttVars>>

\* to_websocket.destroy, line 147
WebsocketCheck ==
    /\ pc = "d_check"
    /\ pc' = IF ws # None THEN "d_sync" ELSE "d_clear"
    /\ UNCHANGED <<baseVars, last, alive, userRef, attached, _global_sinks,
                   delivered, nDestroy, funcVars, fileVars, wsVars, mqttVars>>

\* line 148: self.ws.protocol.close is handed to sync() and the caller blocks
WebsocketSync ==
    /\ pc = "d_sync"
    /\ closing' = ws
    /\ pc' = "d_close"
    /\ UNCHANGED <<baseVars, last, alive, userRef, attached, _global_sinks,
                   delivered, nDestroy, funcVars, fileVars, ws, conns, co,
                   ready, running, sends, mqttVars>>

\* line 148: the loop has run close(); sync() returns or re-raises
WebsocketClose ==
    /\ pc = "d_close" /\ running = 0
    /\ \/ /\ conns' = [conns EXCEPT ![closing] = "closed"]
          /\ pc' = "d_clear"
          /\ UNCHANGED <<last, closing>>
       \/ /\ conns' = conns
          /\ pc' = "idle"
          /\ last' = <<"destroy", "CloseError">>
          /\ closing' = None
    /\ UNCHANGED <<baseVars, alive, userRef, attached, _global_sinks,
                   delivered, nDestroy, funcVars, fileVars, ws, co, ready,
                   running, sends, mqttVars>>

\* line 149, and destroy() returns
WebsocketClear ==
    /\ pc = "d_clear"
    /\ ws' = None
    /\ released' = (released \/ closing # None)
    /\ closing' = None
    /\ pc' = "idle"
    /\ last' = <<"destroy", "returned">>
    /\ UNCHANGED <<kind, ctor, alive, userRef, attached, _global_sinks,
                   delivered, nDestroy, funcVars, fileVars, conns, co, ready,
                   running, sends, mqttVars>>

----------------------------------------------------------------------------

Next ==
    \/ SinkInit \/ TextFileInit \/ WebsocketInit \/ MqttInit
    \/ StreamInit \/ RegistryAdd
    \/ DropRef \/ Collect
    \/ SinkUpdate \/ TextFileUpdate \/ MqttUpdate
    \/ WebsocketUpdate \/ ConnectResolve \/ ConnectResume \/ SendIssue
    \/ SendDone \/ PeerClose
    \/ DestroyCall \/ MqttDisconnect \/ MqttClear \/ StreamDestroy
    \/ RegistryRemove \/ WebsocketCheck \/ WebsocketSync \/ WebsocketClose
    \/ WebsocketClear

Spec == Init /\ [][Next]_vars

\* A sink_to_textfile up to the exit of the interpreter.  A method that has
\* been entered runs to its end, and the interpreter eventually exits.
InitTextFile == Init /\ kind = "sink_to_textfile"

NextTextFile ==
    \/ TextFileInit \/ StreamInit \/ RegistryAdd
    \/ DropRef \/ Collect \/ InterpreterExit
    \/ TextFileUpdate
    \/ DestroyCall \/ StreamDestroy \/ RegistryRemove

SpecTextFile ==
    /\ InitTextFile /\ [][NextTextFile]_vars
    /\ WF_vars(StreamInit) /\ WF_vars(RegistryAdd)
    /\ WF_vars(StreamDestroy) /\ WF_vars(RegistryRemove)
    /\ WF_vars(InterpreterExit)

----------------------------------------------------------------------------
(* Properties *)

finished(c) == c.pc \in {"done", "failed"}

\* the coroutine was called before any connect had resolved
Early(c) == \A k \in 1..Len(c.saw) : c.saw[k] = "connecting"

\* C1: when every update call of a to_websocket sink is started before the
\* first connect resolves, exactly one connect attempt is made in total.
C1_OneConnect ==
    (kind = "to_websocket" /\ co # <<>> /\ \A i \in 1..Len(co) : Early(co[i]))
        => Len(conns) = 1

\* C2: an update call made after a destroy() that closed the opened channel
\* has returned fails, and makes no connect attempt and no send.
C2_UpdateAfterDestroyFails ==
    \A i \in 1..Len(co) :
        co[i].released =>
            /\ co[i].pc = "failed"
            /\ co[i].own = None
            /\ \A k \in 1..Len(sends) : sends[k].by # i

\* C3 as stated: the sink is in the registry if and only if its construction
\* has completed and destroy has not yet begun.
C3_RegisteredUntilDestroyBegins ==
    Self \in _global_sinks <=> (initDone /\ nDestroy = 0)

\* C3 as amended: the sink is in the registry only once its construction has
\* completed, and it stays there until the unregister step of destroy, which
\* comes after the upstream detach (and, for to_mqtt, after the disconnect
\* and the clearing of client); it is absent during to_websocket's release
\* of the connection and after a destroy that returned.
C3_RegisteredUntilUnregisterStep ==
    /\ Self \in _global_sinks => initDone
    /\ (initDone /\ nDestroy = 0) => Self \in _global_sinks
    /\ (nDestroy = 1 /\ pc \in {"d_disconnect", "d_client", "d_stream", "d_remove"})
           => Self \in _global_sinks
    /\ pc \in {"d_check", "d_sync", "d_close", "d_clear"}
           => Self \notin _global_sinks
    /\ last = <<"destroy", "returned">> => Self \notin _global_sinks
    /\ (kind # "to_mqtt" /\ nDestroy >= 1 /\ pc \notin {"d_stream", "d_remove"})
           => Self \notin _global_sinks

C3_Witness ==
    /\ kind = "to_mqtt" /\ nDestroy = 1 /\ pc = "d_remove"
    /\ attached = FALSE /\ client = None /\ Self \in _global_sinks

\* C4: one destroy() on a constructed sink that never received an element
\* raises nothing and leaves the sink unregistered, for every variant.
C4_DestroyUnopened ==
    (nDestroy = 1 /\ delivered = <<>> /\ pc = "idle" /\ last[1] = "destroy")
        => (last[2] = "returned" /\ Self \notin _global_sinks)

RECURSIVE Joined(_, _)
\* v1 + T + v2 + T + ... + vn + T
Joined(vs, T) == IF vs = <<>> THEN "" ELSE vs[1] \o T \o Joined(Tail(vs), T)

\* C5: the data a sink_to_textfile has written is the concatenation of the
\* delivered values, each followed by the terminator given at construction,
\* in delivery order.
C5_FileContent ==
    kind = "sink_to_textfile" => written = Joined(delivered, ctor.end)

C5_Witness ==
    /\ kind = "sink_to_textfile" /\ ctor.end = "\n"
    /\ delivered = <<"bc", "a">> /\ written = "bc\na\n"

\* C6: func is invoked once per delivered value, in delivery order, with the
\* value first, then the positional arguments given at construction, and
\* with the keywords given at construction that are not Stream options.
C6_OneCallPerValue ==
    kind = "sink" =>
        calls = [i \in 1..Len(delivered) |->
                    [x |-> delivered[i], args |-> ctor.args,
                     kwargs |-> ctor.kwargs \ StreamSig]]

C6_Witness ==
    /\ kind = "sink" /\ Len(calls) = 2 /\ delivered[1] # delivered[2]
    /\ ctor.args = <<"p">> /\ ctor.kwargs = {"stream_name", "sep"}

\* C7: once destroy() has been called on a sink_to_textfile its file handle
\* is closed, whether or not the sink object is still referenced.
C7_DestroyClosesFile ==
    (kind = "sink_to_textfile" /\ last = <<"destroy", "returned">>)
        => _fp = "closed"

published == \E c \in 1..Len(clients) : clients[c].published # <<>>

\* C8: a to_mqtt sink that has published holds a client until destroy();
\* when destroy() has returned the client reference is None and the sink is
\* out of the registry, and the first destroy() has called disconnect on
\* that client exactly once.
C8_DestroyDisconnectsAndClears ==
    kind = "to_mqtt" =>
        /\ (published /\ nDestroy = 0) => client # None
        /\ last = <<"destroy", "returned">> =>
              /\ client = None
              /\ Self \notin _global_sinks
              /\ clients # <<>>
              /\ nDestroy = 1 => clients[Len(clients)].disconnects = 1

C8_Witness ==
    /\ kind = "to_mqtt" /\ published /\ nDestroy = 1
    /\ last = <<"destroy", "returned">> /\ client = None

\* the second value is delivered after the first connect has resolved,
\* and nothing closes the connection
C9_Scenario ==
    /\ kind = "to_websocket" /\ Len(co) = 2 /\ nDestroy = 0
    /\ co[2].saw = <<"open">> /\ conns[1] = "open"

\* C9: in that scenario there is exactly one connect, and once both update
\* calls are over there are two completed sends, the first value's first.
C9_OneConnectTwoSends ==
    C9_Scenario =>
        /\ Len(conns) = 1
        /\ (finished(co[1]) /\ finished(co[2])) =>
              /\ co[1].pc = "done" /\ co[2].pc = "done"
              /\ sends = <<[conn |-> 1, x |-> co[1].x, by |-> 1],
                           [conn |-> 1, x |-> co[2].x, by |-> 2]>>

\* C10: when the close or disconnect of an opened resource fails inside
\* destroy(), the sink is out of the registry when destroy() exits.
C10_CloseFailureStillUnregisters ==
    (/\ last = <<"destroy", "CloseError">>
     /\ kind = "to_mqtt" => published)
        => Self \notin _global_sinks

\* C11: unregistering a sink that is not in the registry, as a second
\* destroy() does, raises no error.
C11_UnregisterAbsentIsNoop ==
    last # <<"destroy", "KeyError">>

\* C12: as long as no update has been called on a to_websocket or to_mqtt
\* sink, no connect attempt has been made, no client has been created and
\* the resource handle is None.
C12_NoConnectBeforeUpdate ==
    (kind \in {"to_websocket", "to_mqtt"} /\ delivered = <<>>) =>
        /\ conns = <<>> /\ ws = None
        /\ clients = <<>> /\ client = None

C12_Witness ==
    /\ kind = "to_mqtt" /\ pc = "idle" /\ last = <<"__init__", "returned">>
    /\ Self \in _global_sinks /\ delivered = <<>> /\ client = None

\* C13: once destroy() has disconnected the client of a to_mqtt sink, no
\* later update creates a new client.
C13_ClosedIsTerminal ==
    \A c \in 1..Len(clients) : ~clients[c].afterRelease

\* C14: sink.update returns what func returned when that is awaitable, and
\* an empty result otherwise.
C14_UpdateResult ==
    kind = "sink" =>
        \A i \in 1..Len(returned) :
            /\ returned[i].func = "awaitable" => returned[i].update = "awaitable"
            /\ returned[i].func \in {"value", "none"} => returned[i].update = "[]"

C14_Witness ==
    /\ kind = "sink" /\ Len(returned) = 2
    /\ returned[1].func = "value" /\ returned[2].func = "awaitable"

\* C15: once a delivery of a to_websocket sink has failed, no later update
\* call makes a connect attempt.
C15_NoReconnectAfterFailure ==
    \A i \in 1..Len(co) : co[i].afterFailure => co[i].own = None

\* a coroutine woken by its connect holds the connection until it assigns ws
held(c) ==
    \/ ws = c
    \/ \E i \in 1..Len(co) : co[i].pc = "woken" /\ co[i].own = c

\* C18: every connection a to_websocket sink has opened is the one held in
\* ws (or about to be assigned to it) or is closed, and none is open once
\* destroy() has returned.
C18_NoOrphanedConnection ==
    \A c \in 1..Len(conns) :
        conns[c] = "open" =>
            /\ held(c)
            /\ last # <<"destroy", "returned">>

\* C19: a to_mqtt sink hands a publish only to a client whose connect
\* succeeded.
C19_PublishOnlyWhenConnected ==
    \A c \in 1..Len(clients) :
        \A k \in 1..Len(clients[c].published) :
            clients[c].published[k].connected

C17_RegistryFrame ==
    [][/\ _global_sinks' # _global_sinks => pc \in {"init_add", "d_remove"}
       /\ (delivered' # delivered \/ co' # co \/ pc' = "init_raised")
              => _global_sinks' = _global_sinks]_vars

C17_Witness ==
    /\ kind = "to_websocket" /\ Self \in _global_sinks
    /\ \E i \in 1..Len(co) : co[i].pc = "failed"
    /\ \E i \in 1..Len(co) : co[i].pc = "sending"


====
